---- MODULE Spec2Model ----
(***************************************************************************)
(* Model of the specifier-rewrite engine of d2n (deno_node_transform):     *)
(*   - rs-lib/src/visitors/module_specifiers.rs                            *)
(*       get_module_specifier_text_changes / visit_module_specifier        *)
(*   - rs-lib/tests/integration/test_builder.rs  (TestBuilder)             *)
(* The module graph, the Mappings, get_relative_specifier, the text-change *)
(* application and the shim injector are not part of the two files above;  *)
(* they are modelled from the specification (sections 4.1 - 4.6).          *)
(***************************************************************************)
EXTENDS Integers, Sequences, FiniteSets, TLC

\* ------------------------------------------------------------------ bounds
\* Number of top-level statements with_loader may put into mod.ts.
MaxNodes == 2
\* Number of shims add_shim / add_test_shim / add_default_shims may declare
\* in each of the two shim lists.
MaxShims == 2
\* Number of test entry points add_test_entry_point may declare.
MaxTestEntryPoints == 1
\* Number of times transform is called on one builder.
MaxRuns == 2

\* --------------------------------------------------------------- universe
MOD  == "file:///mod.ts"
UTIL == "file:///sub/util.ts"
LIB  == "https://example.com/lib.ts"
OLD  == "https://example.com/old.ts"
MID  == "https://example.com/mid.ts"
TEST == "file:///mod_test.ts"

Specifiers == {MOD, UTIL, LIB, OLD, MID, TEST}

None == << >>
Some(x) == << x >>
IsSome(o) == Len(o) = 1

Q == "'"

\* Raw source strings (one element per byte) that appear in literals.
RawEmpty == << >>
RawNode  == << "n" >>
RawMod   == << ".", "/", "m" >>
RawUtil  == << ".", "/", "u" >>
RawLib   == << "l" >>
RawOld   == << "o" >>
Raws == {RawEmpty, RawNode, RawMod, RawUtil, RawLib, RawOld}

\* Source-level node shapes: kind, optional source string, nested nodes.
Tmpl(k, s, n) == [kind |-> k, src |-> s, nested |-> n, ident |-> ""]

\* A statement that refers to the global identifier id.
TmplRef(id) == [kind |-> "ExprStmt", src |-> None, nested |-> << >>, ident |-> id]

NodeTemplates ==
       { Tmpl("ImportDecl", Some(r), << >>) : r \in {RawNode, RawMod, RawOld} }
  \cup { Tmpl("ExportAll", Some(RawUtil), << >>) }
  \cup { Tmpl("NamedExport", Some(r), << >>) : r \in {RawLib, RawEmpty} }
  \cup { Tmpl("NamedExport", None, << >>) }
  \cup { Tmpl("TsModuleDecl", None, << Tmpl("ImportDecl", Some(RawUtil), << >>) >>) }

\* ------------------------------------------------------- parser (deno_ast)
RECURSIVE NodeText(_), BodyText(_)
NodeText(t) ==
  CASE t.kind = "ImportDecl"   -> << "i", Q >> \o t.src[1] \o << Q, ";" >>
    [] t.kind = "ExportAll"    -> << "e", "*", Q >> \o t.src[1] \o << Q, ";" >>
    [] t.kind = "NamedExport"  ->
         IF IsSome(t.src) THEN << "e", "{", "}", Q >> \o t.src[1] \o << Q, ";" >>
                          ELSE << "e", "{", "}", ";" >>
    [] t.kind = "TsModuleDecl" -> << "n", "{" >> \o BodyText(t.nested) \o << "}" >>
    [] OTHER                   -> << t.ident, "(", ")", ";" >>

BodyText(b) == IF b = << >> THEN << >> ELSE NodeText(Head(b)) \o BodyText(Tail(b))

\* Offset of the opening quote of a node's literal from the node's start.
QuoteOffset(t) ==
  CASE t.kind = "ImportDecl"  -> 1
    [] t.kind = "ExportAll"   -> 2
    [] OTHER                  -> 3

Str(v, lo, hi) == [value |-> v, lo |-> lo, hi |-> hi]

RECURSIVE ParseNode(_, _), ParseBody(_, _)
ParseNode(t, pos) ==
  [ kind     |-> t.kind,
    ident    |-> t.ident,
    src      |-> IF IsSome(t.src)
                 THEN Some(Str(t.src[1], pos + QuoteOffset(t),
                               pos + QuoteOffset(t) + Len(t.src[1]) + 2))
                 ELSE None,
    children |-> ParseBody(t.nested, pos + 2) ]

ParseBody(b, pos) ==
  IF b = << >> THEN << >>
  ELSE << ParseNode(Head(b), pos) >> \o ParseBody(Tail(b), pos + Len(NodeText(Head(b))))

\* ------------------------------------------------------------------ state
VARIABLES
  \* TestBuilder fields
  loader, entry_point, additional_entry_points, test_entry_points,
  specifier_mappings, redirects, shims, test_shims,
  \* the transform run
  phase,            \* "builder" until transform() is called, then "running"
  programs,         \* per module: the parsed Program
  module_graph,     \* ModuleGraph built by transform
  mappings,         \* Mappings: specifier -> output file path
  bare_specifiers,  \* HashMap<ModuleSpecifier, String> handed to the visitor
  pc,               \* per module: position in get_module_specifier_text_changes
  child_idx,        \* per module: index of the next child of program.children()
  output_file_path, \* per module: Context.output_file_path
  text_changes,     \* per module: Context.text_changes
  file_path_calls,  \* per module: the get_file_path calls its rewrite made
  injected,         \* per module: the shim imports injected into it
  output,           \* per module: final text (None until applied)
  runs,             \* number of transform calls so far
  previous          \* the TransformOutput of the previous run, if any

builderVars == << loader, entry_point, additional_entry_points, test_entry_points,
                  specifier_mappings, redirects, shims, test_shims >>
sharedVars  == << programs, module_graph, mappings, bare_specifiers >>
moduleVars  == << pc, child_idx, output_file_path, text_changes, file_path_calls,
                  injected, output >>
runVars     == << runs, previous >>
vars == << builderVars, phase, sharedVars, moduleVars, runVars >>

\* ------------------------------------------------ HashMap (std::collections)
\* A table is a sequence of << key, value >> entries with distinct keys; the
\* order of the entries is the (unspecified) iteration order.
Keys(tbl) == { tbl[i][1] : i \in DOMAIN tbl }
HashMapGet(tbl, k) ==
  IF k \in Keys(tbl) THEN Some(tbl[CHOOSE i \in DOMAIN tbl : tbl[i][1] = k][2])
  ELSE None
HashMapInsert(tbl, k, v) ==
  IF k \in Keys(tbl)
  THEN [ i \in DOMAIN tbl |-> IF tbl[i][1] = k THEN << k, v >> ELSE tbl[i] ]
  ELSE Append(tbl, << k, v >>)

\* The orders in which the entries of a sequence can be met.
Orderings(changes) ==
  { [ i \in DOMAIN changes |-> changes[p[i]] ] :
      p \in { q \in [DOMAIN changes -> DOMAIN changes] :
                \A i, j \in DOMAIN changes : i # j => q[i] # q[j] } }

\* ------------------------------------------------------------ TestBuilder
MappedSpecifier(n, v, p) == [name |-> n, version |-> v, sub_path |-> p]
\* The (name, version, sub_path) triples handed to add_specifier_mapping.
MappedSpecifiers ==
  { MappedSpecifier("p", Some("^1.0.0"), None),
    MappedSpecifier("p", Some("^1.0.0"), Some("sub")) }

\* The files the loader serves besides mod.ts.
UtilBody == << Tmpl("ExportAll", Some(RawLib), << >>) >>
TestBody == << Tmpl("ImportDecl", Some(RawMod), << >>), TmplRef("Deno") >>
FixtureFiles ==
  [m \in Specifiers |-> CASE m = UTIL -> UtilBody
                          [] m = TEST -> TestBody
                          [] OTHER    -> << >>]

Init ==
  /\ loader = FixtureFiles
  /\ entry_point = MOD
  /\ additional_entry_points = << >>
  /\ test_entry_points = << >>
  /\ specifier_mappings = << >>
  /\ redirects = << >>
  /\ shims = << >>
  /\ test_shims = << >>
  /\ phase = "builder"
  /\ programs = [m \in Specifiers |-> << >>]
  /\ module_graph = [modules |-> {}, redirects |-> << >>]
  /\ mappings = << >>
  /\ bare_specifiers = << >>
  /\ pc = [m \in Specifiers |-> "idle"]
  /\ child_idx = [m \in Specifiers |-> 0]
  /\ output_file_path = [m \in Specifiers |-> None]
  /\ text_changes = [m \in Specifiers |-> << >>]
  /\ file_path_calls = [m \in Specifiers |-> {}]
  /\ injected = [m \in Specifiers |-> << >>]
  /\ output = [m \in Specifiers |-> None]
  /\ runs = 0
  /\ previous = None

\* with_loader(|l| ...): appends one statement to the file of m.
with_loader(m, t) ==
  /\ phase = "builder"
  /\ Len(loader[m]) < MaxNodes
  /\ loader' = [loader EXCEPT ![m] = Append(@, t)]
  /\ UNCHANGED << entry_point, additional_entry_points, test_entry_points,
                  specifier_mappings, redirects, shims, test_shims,
                  phase, sharedVars, moduleVars, runVars >>

\* Variant: the entry is pushed also when the table has one for the specifier.
add_specifier_mapping_push(specifier, bare_specifier, version, path) ==
  /\ phase = "builder"
  /\ Len(specifier_mappings) < 2
  /\ specifier_mappings' =
       Append(specifier_mappings,
              << specifier, MappedSpecifier(bare_specifier, version, path) >>)
  /\ UNCHANGED << loader, entry_point, additional_entry_points, test_entry_points,
                  redirects, shims, test_shims, phase, sharedVars, moduleVars, runVars >>

add_specifier_mapping(specifier, bare_specifier, version, path) ==
  /\ phase = "builder"
  /\ specifier_mappings' =
       HashMapInsert(specifier_mappings, specifier,
                     MappedSpecifier(bare_specifier, version, path))
  /\ UNCHANGED << loader, entry_point, additional_entry_points, test_entry_points,
                  redirects, shims, test_shims, phase, sharedVars, moduleVars, runVars >>

add_redirect(from, to) ==
  /\ phase = "builder"
  /\ redirects' = HashMapInsert(redirects, from, to)
  /\ UNCHANGED << loader, entry_point, additional_entry_points, test_entry_points,
                  specifier_mappings, shims, test_shims, phase, sharedVars,
                  moduleVars, runVars >>

add_test_entry_point(value) ==
  /\ phase = "builder"
  /\ Len(test_entry_points) < MaxTestEntryPoints
  /\ test_entry_points' = Append(test_entry_points, value)
  /\ UNCHANGED << loader, entry_point, additional_entry_points, specifier_mappings,
                  redirects, shims, test_shims, phase, sharedVars, moduleVars,
                  runVars >>

GlobalName(n) == [name |-> n, export_name |-> None, type_only |-> FALSE]
Shim(package, global_names) == [package |-> package, global_names |-> global_names]

deno_shim ==
  Shim(MappedSpecifier("@deno/shim-deno", Some("^0.1.0"), None),
       << GlobalName("Deno") >>)
timers_shim ==
  Shim(MappedSpecifier("@deno/shim-timers", Some("^0.1.0"), None),
       << GlobalName("setTimeout"), GlobalName("setInterval") >>)

add_shim(shim) ==
  /\ phase = "builder"
  /\ Len(shims) < MaxShims
  /\ shims' = Append(shims, shim)
  /\ UNCHANGED << loader, entry_point, additional_entry_points, test_entry_points,
                  specifier_mappings, redirects, test_shims, phase, sharedVars,
                  moduleVars, runVars >>

add_test_shim(shim) ==
  /\ phase = "builder"
  /\ Len(test_shims) < MaxShims
  /\ test_shims' = Append(test_shims, shim)
  /\ UNCHANGED << loader, entry_point, additional_entry_points, test_entry_points,
                  specifier_mappings, redirects, shims, phase, sharedVars,
                  moduleVars, runVars >>

\* add_shim(deno), add_test_shim(deno), add_shim(timers), add_test_shim(timers)
add_default_shims ==
  /\ phase = "builder"
  /\ Len(shims) + 2 <= MaxShims
  /\ Len(test_shims) + 2 <= MaxShims
  /\ shims' = Append(Append(shims, deno_shim), timers_shim)
  /\ test_shims' = Append(Append(test_shims, deno_shim), timers_shim)
  /\ UNCHANGED << loader, entry_point, additional_entry_points, test_entry_points,
                  specifier_mappings, redirects, phase, sharedVars, moduleVars,
                  runVars >>

\* ----------------------------------------------------- ModuleGraph (4.1)
\* URL resolution of a literal's value against the containing module.
PreResolve(value, containing) ==
  CASE value = RawMod  -> Some(MOD)
    [] value = RawUtil -> Some(UTIL)
    [] value = RawLib  -> Some(LIB)
    [] value = RawOld  -> Some(OLD)
    [] OTHER           -> None

RECURSIVE FollowRedirects(_, _, _)
FollowRedirects(tbl, s, fuel) ==
  IF fuel = 0 \/ HashMapGet(tbl, s) = None THEN s
  ELSE FollowRedirects(tbl, HashMapGet(tbl, s)[1], fuel - 1)

Canonical(tbl, s) == FollowRedirects(tbl, s, Len(tbl))

Program(m) == ParseBody(loader[m], 0)
SourceText(m) == BodyText(loader[m])

IsSourceNode(n) ==
  n.kind \in {"ImportDecl", "ExportAll", "NamedExport"} /\ IsSome(n.src)

\* Specifiers a module's top-level import/export sources lead to.
Dependencies(tbl, m) ==
  { Canonical(tbl, PreResolve(Program(m)[i].src[1].value, m)[1]) :
      i \in { j \in DOMAIN Program(m) :
                /\ IsSourceNode(Program(m)[j])
                /\ IsSome(PreResolve(Program(m)[j].src[1].value, m)) } }

RECURSIVE Closure(_, _)
Closure(tbl, S) ==
  LET next == S \cup UNION { Dependencies(tbl, m) : m \in S }
  IN IF next = S THEN S ELSE Closure(tbl, next)

BuildGraph(entry_points, tbl) ==
  [ modules   |-> Closure(tbl, { Canonical(tbl, entry_points[i]) :
                                   i \in DOMAIN entry_points }),
    redirects |-> tbl ]

resolve_dependency(graph, value, containing) ==
  LET pre == PreResolve(value, containing) IN
  IF pre = None THEN None
  ELSE LET c == Canonical(graph.redirects, pre[1]) IN
       IF c \in graph.modules THEN Some(c) ELSE None

\* --------------------------------------------------------- Mappings (4.2)
OutputPath(s) ==
  CASE s = MOD  -> << "mod.js" >>
    [] s = UTIL -> << "sub", "util.js" >>
    [] s = LIB  -> << "deps", "example.com", "lib.js" >>
    [] s = OLD  -> << "deps", "example.com", "old.js" >>
    [] s = MID  -> << "deps", "example.com", "mid.js" >>
    [] s = TEST -> << "mod_test.js" >>

NewMappings(graph) ==
  [ s \in graph.modules \cup Keys(graph.redirects) |-> OutputPath(s) ]

get_file_path(m, s) == m[s]

\* ------------------------------------------- get_relative_specifier (4.3)
Parent(path) == SubSeq(path, 1, Len(path) - 1)

RECURSIVE CommonPrefixLen(_, _)
CommonPrefixLen(a, b) ==
  IF a = << >> \/ b = << >> \/ Head(a) # Head(b) THEN 0
  ELSE 1 + CommonPrefixLen(Tail(a), Tail(b))

\* pathdiff: the components leading from directory base to path.
DiffPaths(path, base) ==
  LET k == CommonPrefixLen(path, base) IN
  [ i \in 1 .. (Len(base) - k) |-> ".." ] \o SubSeq(path, k + 1, Len(path))

RECURSIVE JoinPath(_, _)
JoinPath(comps, sep) ==
  IF Len(comps) <= 1 THEN comps
  ELSE << Head(comps), sep >> \o JoinPath(Tail(comps), sep)

ReplaceBackslash(txt) == [ i \in DOMAIN txt |-> IF txt[i] = "\\" THEN "/" ELSE txt[i] ]

StartsWithDot(txt) == Len(txt) >= 2 /\ txt[1] \in {".", ".."} /\ txt[2] = "/"

\* sep is the path separator of the platform the transform runs on.
PathSeparators == {"/", "\\"}

get_relative_specifier(sep, from, to) ==
  LET txt == ReplaceBackslash(JoinPath(DiffPaths(to, Parent(from)), sep)) IN
  IF StartsWithDot(txt) THEN txt ELSE << ".", "/" >> \o txt

\* ------------------------------------------ specifier-mapping table (4.3)
BareSpecifierText(ms) ==
  IF IsSome(ms.sub_path) THEN << ms.name, "/", ms.sub_path[1] >> ELSE << ms.name >>

BareSpecifiers(tbl) ==
  [ i \in DOMAIN tbl |-> << tbl[i][1], BareSpecifierText(tbl[i][2]) >> ]

\* -------------------------------------------------- TestBuilder::transform
EntryPoints == << entry_point >> \o additional_entry_points

\* What a run hands back: the text of every output file and the packages of
\* the shims that were injected.
TransformOutput ==
  [ files |-> { << mappings[m], output[m][1] >> : m \in module_graph.modules },
    shim_packages |-> UNION { { injected[m][i].package : i \in DOMAIN injected[m] } :
                                m \in module_graph.modules } ]

\* The options are cloned (a HashMap's iteration order is not part of its
\* value), the graph and the mappings are built, every module's slot is reset.
RunTransform ==
  /\ phase' = "running"
  /\ runs' = runs + 1
  /\ programs' = [m \in Specifiers |-> Program(m)]
  /\ \E tbl \in Orderings(redirects) :
       module_graph' = BuildGraph(EntryPoints \o test_entry_points, tbl)
  /\ mappings' = NewMappings(module_graph')
  /\ \E tbl \in Orderings(specifier_mappings) :
       bare_specifiers' = BareSpecifiers(tbl)
  /\ pc' = [m \in Specifiers |-> "idle"]
  /\ child_idx' = [m \in Specifiers |-> 0]
  /\ output_file_path' = [m \in Specifiers |-> None]
  /\ text_changes' = [m \in Specifiers |-> << >>]
  /\ file_path_calls' = [m \in Specifiers |-> {}]
  /\ injected' = [m \in Specifiers |-> << >>]
  /\ output' = [m \in Specifiers |-> None]
  /\ UNCHANGED builderVars

transform ==
  /\ phase = "builder"
  /\ previous' = None
  /\ RunTransform

\* transform(&self) called once more on the same builder.
transform_again ==
  /\ phase = "done"
  /\ runs < MaxRuns
  /\ previous' = Some(TransformOutput)
  /\ RunTransform

\* ------------------------------------ visitors/module_specifiers.rs
\* swc Span::new orders its two ends.
SpanNew(lo, hi) == IF lo > hi THEN [lo |-> hi, hi |-> lo] ELSE [lo |-> lo, hi |-> hi]

TextChange(span, new_text) == [span |-> span, new_text |-> new_text]

\* The Context of one module's rewrite, read from that module's slots.
Context(m) ==
  [ specifier        |-> m,
    module_graph     |-> module_graph,
    mappings         |-> mappings,
    output_file_path |-> output_file_path[m][1],
    text_changes     |-> text_changes[m],
    specifier_mappings |-> bare_specifiers,
    file_path_calls  |-> file_path_calls[m] ]

FilePathCall(at, s) == [at |-> at, specifier |-> s]

\* Variant: the span covers the whole literal, quotes included.
visit_module_specifier_quotes(sep, str, context) ==
  LET specifier == resolve_dependency(context.module_graph, str.value,
                                      context.specifier)
  IN
  IF specifier = None THEN context
  ELSE
    LET bare_specifier == HashMapGet(context.specifier_mappings, specifier[1])
        mapped == IsSome(bare_specifier)
        new_text ==
          IF mapped THEN bare_specifier[1]
          ELSE get_relative_specifier(sep, context.output_file_path,
                                      get_file_path(context.mappings, specifier[1]))
    IN [ context EXCEPT
           !.text_changes = Append(@, TextChange(SpanNew(str.lo, str.hi), new_text)),
           !.file_path_calls =
             IF mapped THEN @ ELSE @ \cup {FilePathCall(str.lo, specifier[1])} ]

\* Variant: an unresolved specifier is blanked instead of being left alone.
visit_module_specifier_blank(sep, str, context) ==
  LET specifier == resolve_dependency(context.module_graph, str.value,
                                      context.specifier)
      bare_specifier ==
        IF specifier = None THEN None
        ELSE HashMapGet(context.specifier_mappings, specifier[1])
      mapped == IsSome(bare_specifier)
      new_text ==
        IF specifier = None THEN << >>
        ELSE IF mapped THEN bare_specifier[1]
        ELSE get_relative_specifier(sep, context.output_file_path,
                                    get_file_path(context.mappings, specifier[1]))
  IN [ context EXCEPT
         !.text_changes =
           Append(@, TextChange(SpanNew(str.lo + 1, str.hi - 1), new_text)),
         !.file_path_calls =
           IF mapped \/ specifier = None THEN @
           ELSE @ \cup {FilePathCall(str.lo, specifier[1])} ]

\* Variant: the specifier-mapping table is not consulted.
visit_module_specifier_relocate(sep, str, context) ==
  LET specifier == resolve_dependency(context.module_graph, str.value,
                                      context.specifier)
  IN
  IF specifier = None THEN context
  ELSE
    LET bare_specifier == None
        mapped == IsSome(bare_specifier)
        new_text ==
          IF mapped THEN bare_specifier[1]
          ELSE get_relative_specifier(sep, context.output_file_path,
                                      get_file_path(context.mappings, specifier[1]))
    IN [ context EXCEPT
           !.text_changes =
             Append(@, TextChange(SpanNew(str.lo + 1, str.hi - 1), new_text)),
           !.file_path_calls =
             IF mapped THEN @ ELSE @ \cup {FilePathCall(str.lo, specifier[1])} ]

\* Variant: the relative path is taken from the target to the module.
visit_module_specifier_swapped(sep, str, context) ==
  LET specifier == resolve_dependency(context.module_graph, str.value,
                                      context.specifier)
  IN
  IF specifier = None THEN context
  ELSE
    LET bare_specifier == HashMapGet(context.specifier_mappings, specifier[1])
        mapped == IsSome(bare_specifier)
        new_text ==
          IF mapped THEN bare_specifier[1]
          ELSE get_relative_specifier(sep, get_file_path(context.mappings, specifier[1]),
                                      context.output_file_path)
    IN [ context EXCEPT
           !.text_changes =
             Append(@, TextChange(SpanNew(str.lo + 1, str.hi - 1), new_text)),
           !.file_path_calls =
             IF mapped THEN @ ELSE @ \cup {FilePathCall(str.lo, specifier[1])} ]

\* Variant: the literal is resolved without the graph's redirects.
visit_module_specifier_unredirected(sep, str, context) ==
  LET specifier == IF resolve_dependency(context.module_graph, str.value,
                                         context.specifier) = None
                   THEN None ELSE PreResolve(str.value, context.specifier)
  IN
  IF specifier = None THEN context
  ELSE
    LET bare_specifier == HashMapGet(context.specifier_mappings, specifier[1])
        mapped == IsSome(bare_specifier)
        new_text ==
          IF mapped THEN bare_specifier[1]
          ELSE get_relative_specifier(sep, context.output_file_path,
                                      get_file_path(context.mappings, specifier[1]))
    IN [ context EXCEPT
           !.text_changes =
             Append(@, TextChange(SpanNew(str.lo + 1, str.hi - 1), new_text)),
           !.file_path_calls =
             IF mapped THEN @ ELSE @ \cup {FilePathCall(str.lo, specifier[1])} ]

\* Variant: a new change is put in front of the earlier ones.
visit_module_specifier_prepend(sep, str, context) ==
  LET specifier == resolve_dependency(context.module_graph, str.value,
                                      context.specifier)
  IN
  IF specifier = None THEN context
  ELSE
    LET bare_specifier == HashMapGet(context.specifier_mappings, specifier[1])
        mapped == IsSome(bare_specifier)
        new_text ==
          IF mapped THEN bare_specifier[1]
          ELSE get_relative_specifier(sep, context.output_file_path,
                                      get_file_path(context.mappings, specifier[1]))
    IN [ context EXCEPT
           !.text_changes =
             << TextChange(SpanNew(str.lo + 1, str.hi - 1), new_text) >> \o @,
           !.file_path_calls =
             IF mapped THEN @ ELSE @ \cup {FilePathCall(str.lo, specifier[1])} ]

visit_module_specifier(sep, str, context) ==
  LET specifier == resolve_dependency(context.module_graph, str.value,
                                      context.specifier)
  IN
  IF specifier = None THEN context
  ELSE
    LET bare_specifier == HashMapGet(context.specifier_mappings, specifier[1])
        mapped == IsSome(bare_specifier)
        new_text ==
          IF mapped THEN bare_specifier[1]
          ELSE get_relative_specifier(sep, context.output_file_path,
                                      get_file_path(context.mappings, specifier[1]))
    IN [ context EXCEPT
           !.text_changes =
             Append(@, TextChange(SpanNew(str.lo + 1, str.hi - 1), new_text)),
           !.file_path_calls =
             IF mapped THEN @ ELSE @ \cup {FilePathCall(str.lo, specifier[1])} ]

\* Variant: the import declarations nested in a namespace are visited too.
visit_child_nested(sep, child, context) ==
  CASE child.kind = "ImportDecl" -> visit_module_specifier(sep, child.src[1], context)
    [] child.kind = "ExportAll"  -> visit_module_specifier(sep, child.src[1], context)
    [] child.kind = "NamedExport" ->
         IF IsSome(child.src) THEN visit_module_specifier(sep, child.src[1], context)
         ELSE context
    [] child.kind = "TsModuleDecl" /\ child.children # << >> ->
         visit_module_specifier(sep, child.children[1].src[1], context)
    [] OTHER -> context

\* The body of the loop over program.children(): the match on the node kind.
visit_child(sep, child, context) ==
  CASE child.kind = "ImportDecl" -> visit_module_specifier(sep, child.src[1], context)
    [] child.kind = "ExportAll"  -> visit_module_specifier(sep, child.src[1], context)
    [] child.kind = "NamedExport" ->
         IF IsSome(child.src) THEN visit_module_specifier(sep, child.src[1], context)
         ELSE context
    [] OTHER -> context

\* get_module_specifier_text_changes run on its own, from the construction of
\* the Context to the returned context.text_changes.
RECURSIVE VisitChildren(_, _, _)
VisitChildren(sep, children, context) ==
  IF children = << >> THEN context
  ELSE VisitChildren(sep, Tail(children), visit_child(sep, Head(children), context))

get_module_specifier_text_changes(sep, m) ==
  VisitChildren(sep, programs[m],
                [ specifier        |-> m,
                  module_graph     |-> module_graph,
                  mappings         |-> mappings,
                  output_file_path |-> get_file_path(mappings, m),
                  text_changes     |-> << >>,
                  specifier_mappings |-> bare_specifiers,
                  file_path_calls  |-> {FilePathCall(-1, m)} ]).text_changes

\* get_module_specifier_text_changes: construction of the Context; a program
\* without children returns at once.
BeginRewrite(m) ==
  /\ phase = "running"
  /\ m \in module_graph.modules
  /\ pc[m] = "idle"
  /\ output_file_path' = [output_file_path EXCEPT ![m] = Some(get_file_path(mappings, m))]
  /\ file_path_calls' = [file_path_calls EXCEPT ![m] = {FilePathCall(-1, m)}]
  /\ text_changes' = [text_changes EXCEPT ![m] = << >>]
  /\ child_idx' = [child_idx EXCEPT ![m] = 1]
  /\ pc' = [pc EXCEPT ![m] = IF programs[m] = << >> THEN "returned" ELSE "visiting"]
  /\ UNCHANGED << builderVars, phase, sharedVars, injected, output, runVars >>

\* Variant: the changes of all modules being visited go to one shared list.
VisitChild_shared(m) ==
  /\ phase = "running"
  /\ pc[m] = "visiting"
  /\ \E sep \in PathSeparators :
       LET context == visit_child(sep, programs[m][child_idx[m]], Context(m)) IN
       /\ text_changes' = [n \in Specifiers |->
                             IF pc[n] = "visiting" THEN context.text_changes
                             ELSE text_changes[n]]
       /\ file_path_calls' = [file_path_calls EXCEPT ![m] = context.file_path_calls]
  /\ child_idx' = [child_idx EXCEPT ![m] = @ + 1]
  /\ pc' = [pc EXCEPT ![m] = IF child_idx[m] = Len(programs[m]) THEN "returned"
                                                                ELSE "visiting"]
  /\ UNCHANGED << builderVars, phase, sharedVars, output_file_path, injected,
                  output, runVars >>

\* get_module_specifier_text_changes: one iteration of the loop; after the
\* last child context.text_changes is returned.
VisitChild(m) ==
  /\ phase = "running"
  /\ pc[m] = "visiting"
  /\ \E sep \in PathSeparators :
       LET context == visit_child(sep, programs[m][child_idx[m]], Context(m)) IN
       /\ text_changes' = [text_changes EXCEPT ![m] = context.text_changes]
       /\ file_path_calls' = [file_path_calls EXCEPT ![m] = context.file_path_calls]
  /\ child_idx' = [child_idx EXCEPT ![m] = @ + 1]
  /\ pc' = [pc EXCEPT ![m] = IF child_idx[m] = Len(programs[m]) THEN "returned"
                                                                ELSE "visiting"]
  /\ UNCHANGED << builderVars, phase, sharedVars, output_file_path, injected,
                  output, runVars >>

\* ------------------------------------------- applying text changes (4.4)
RECURSIVE InsertByStart(_, _)
InsertByStart(c, sorted) ==
  IF sorted = << >> THEN << c >>
  ELSE IF c.span.lo < Head(sorted).span.lo THEN << c >> \o sorted
  ELSE << Head(sorted) >> \o InsertByStart(c, Tail(sorted))

RECURSIVE SortByStart(_)
SortByStart(changes) ==
  IF changes = << >> THEN << >>
  ELSE InsertByStart(Head(changes), SortByStart(Tail(changes)))

\* Byte i of a text is element i + 1 of the sequence.
RECURSIVE ApplySorted(_, _, _)
ApplySorted(text, changes, pos) ==
  IF changes = << >> THEN SubSeq(text, pos + 1, Len(text))
  ELSE SubSeq(text, pos + 1, Head(changes).span.lo)
         \o Head(changes).new_text
         \o ApplySorted(text, Tail(changes), Head(changes).span.hi)

apply_text_changes(text, changes) == ApplySorted(text, SortByStart(changes), 0)

\* ----------------------------------------------------- shim injector (4.5)
\* The global identifiers a module's top-level statements refer to.
References(m) ==
  { programs[m][i].ident : i \in { j \in DOMAIN programs[m] :
                                     programs[m][j].kind = "ExprStmt" } }

\* Modules reached from the ordinary entry points; the rest of the graph is
\* reached from test entry points only.
OrdinaryModules ==
  Closure(module_graph.redirects,
          { Canonical(module_graph.redirects, EntryPoints[i]) : i \in DOMAIN EntryPoints })
ApplicableShims(m) == IF m \in OrdinaryModules THEN shims ELSE test_shims

ExportName(g) == IF IsSome(g.export_name) THEN g.export_name[1] ELSE g.name
UsedNames(shim, refs) ==
  SelectSeq(shim.global_names, LAMBDA g : g.name \in refs)

ShimImport(shim, refs) ==
  [ package |-> BareSpecifierText(shim.package),
    names   |-> [ i \in DOMAIN UsedNames(shim, refs) |->
                    ExportName(UsedNames(shim, refs)[i]) ] ]

\* One import per shim package with a referenced global, in declaration order.
RECURSIVE ShimImports(_, _, _)
ShimImports(list, refs, seen) ==
  IF list = << >> THEN << >>
  ELSE LET shim == Head(list)
           imp  == ShimImport(shim, refs) IN
       IF imp.names = << >> \/ imp.package \in seen
       THEN ShimImports(Tail(list), refs, seen)
       ELSE << imp >> \o ShimImports(Tail(list), refs, seen \cup {imp.package})

\* Variant: one import per referenced global name.
InjectShims_per_global(m) ==
  LET list == ApplicableShims(m)
      one(shim, g) == [ package |-> BareSpecifierText(shim.package),
                        names   |-> << ExportName(g) >> ]
      RECURSIVE PerName(_, _), PerShim(_)
      PerName(shim, names) ==
        IF names = << >> THEN << >>
        ELSE << one(shim, Head(names)) >> \o PerName(shim, Tail(names))
      PerShim(l) ==
        IF l = << >> THEN << >>
        ELSE PerName(Head(l), UsedNames(Head(l), References(m))) \o PerShim(Tail(l))
  IN PerShim(list)

InjectShims(m) == ShimImports(ApplicableShims(m), References(m), {})

ImportText(imp) ==
  << "import", "{" >> \o imp.names \o << "}", "from", Q >> \o imp.package \o << Q, ";" >>

RECURSIVE ImportsText(_)
ImportsText(imps) ==
  IF imps = << >> THEN << >> ELSE ImportText(Head(imps)) \o ImportsText(Tail(imps))

\* Once every module's changes are back the orchestrator injects the shim
\* imports at the top of each module, applies the changes and assembles the
\* output.
ApplyChanges ==
  /\ phase = "running"
  /\ \A m \in module_graph.modules : pc[m] = "returned"
  /\ injected' = [m \in Specifiers |->
                    IF m \in module_graph.modules THEN InjectShims(m) ELSE << >>]
  /\ output' = [m \in Specifiers |->
                  IF m \in module_graph.modules
                  THEN Some(ImportsText(injected'[m])
                              \o apply_text_changes(SourceText(m), text_changes[m]))
                  ELSE None]
  /\ phase' = "done"
  /\ UNCHANGED << builderVars, sharedVars, pc, child_idx, output_file_path,
                  text_changes, file_path_calls, runVars >>

\* ---------------------------------------------------------- specification
MappingTargets == {LIB}
RedirectPairs == { << OLD, MID >>, << MID, LIB >> }

Rewrite ==
  \/ \E m \in Specifiers : BeginRewrite(m)
  \/ \E m \in Specifiers : VisitChild(m)
  \/ ApplyChanges

\* The rewrite of module specifiers: mod.ts, specifier mappings and redirects
\* are chosen through the builder.
Next ==
  \/ \E t \in NodeTemplates : with_loader(MOD, t)
  \/ \E s \in MappingTargets, ms \in MappedSpecifiers :
       add_specifier_mapping(s, ms.name, ms.version, ms.sub_path)
  \/ \E r \in RedirectPairs : add_redirect(r[1], r[2])
  \/ transform
  \/ Rewrite

Spec == Init /\ [][Next]_vars

\* The injection of shims: the globals mod.ts refers to, the two shim lists and
\* the test entry point are chosen through the builder.
ShimTemplates == { TmplRef(id) : id \in {"Deno", "setTimeout", "setInterval"} }
ShimInputs == {deno_shim, timers_shim}

NextShim ==
  \/ \E t \in ShimTemplates : with_loader(MOD, t)
  \/ \E shim \in ShimInputs : add_shim(shim)
  \/ \E shim \in ShimInputs : add_test_shim(shim)
  \/ add_default_shims
  \/ add_test_entry_point(TEST)
  \/ transform
  \/ Rewrite

SpecShim == Init /\ [][NextShim]_vars

\* Two runs of one builder.
TwiceTemplates ==
  { Tmpl("ImportDecl", Some(RawOld), << >>),
    Tmpl("ExportAll", Some(RawUtil), << >>),
    TmplRef("Deno") }

NextTwice ==
  \/ \E t \in TwiceTemplates : with_loader(MOD, t)
  \/ \E s \in MappingTargets, ms \in MappedSpecifiers :
       add_specifier_mapping(s, ms.name, ms.version, ms.sub_path)
  \/ \E r \in RedirectPairs : add_redirect(r[1], r[2])
  \/ add_default_shims
  \/ transform
  \/ Rewrite
  \/ transform_again

SpecTwice == Init /\ [][NextTwice]_vars

\* ================================================================ claims
Returned(m) == pc[m] = "returned"
Applied(m) == phase = "done" /\ m \in module_graph.modules
Started(m) == pc[m] # "idle"

\* Indices of the top-level import / export-all / named-export-with-source nodes.
SourceNodeIdx(m) == { i \in DOMAIN programs[m] : IsSourceNode(programs[m][i]) }
Literal(m, i) == programs[m][i].src[1]

\* The chain of redirects of the builder's table, read entry by entry.
Hop(a, b) == \E i \in DOMAIN redirects : redirects[i] = << a, b >>
RECURSIVE ReachesIn(_, _, _)
ReachesIn(a, b, n) ==
  n > 0 /\ (Hop(a, b) \/ \E c \in Specifiers : Hop(a, c) /\ ReachesIn(c, b, n - 1))
Redirected(a) == \E b \in Specifiers : Hop(a, b)
\* b is what a stands for once every redirect has been followed.
FinalOf(a, b) ==
  /\ ~ Redirected(b)
  /\ (a = b \/ ReachesIn(a, b, Len(redirects)))

\* The target of the literal of source node i of module m, if it has one.
TargetOf(m, i, b) ==
  /\ IsSome(PreResolve(Literal(m, i).value, m))
  /\ FinalOf(PreResolve(Literal(m, i).value, m)[1], b)
  /\ b \in module_graph.modules
HasTarget(m, i) == \E b \in Specifiers : TargetOf(m, i, b)

IsMapped(b) == \E i \in DOMAIN specifier_mappings : specifier_mappings[i][1] = b
MappingOf(b) ==
  specifier_mappings[CHOOSE i \in DOMAIN specifier_mappings :
                       specifier_mappings[i][1] = b][2]

Interior(str) == [lo |-> str.lo + 1, hi |-> str.hi - 1]
\* The change, if any, a module's rewrite made for the literal str.
ChangesFor(m, str) ==
  { k \in DOMAIN text_changes[m] :
      text_changes[m][k].span.lo >= str.lo /\ text_changes[m][k].span.hi <= str.hi }

RECURSIVE SumLen(_)
SumLen(cs) ==
  IF cs = << >> THEN 0
  ELSE Len(Head(cs).new_text) - (Head(cs).span.hi - Head(cs).span.lo) + SumLen(Tail(cs))
\* How far the byte at offset pos of the source has moved in the output.
Shift(m, pos) ==
  Len(ImportsText(injected[m]))
    + SumLen(SelectSeq(text_changes[m], LAMBDA c : c.span.hi <= pos))

Resolves(m, str) == resolve_dependency(module_graph, str.value, m) # None

\* C1: when every top-level source string of a module resolves, the returned
\* changes are exactly one per source node, their spans are the interiors of
\* the literals' quotes (lo <= hi) and no two of them overlap.
C1_OneChangePerResolvedNode ==
  \A m \in Specifiers :
    (Returned(m) /\ \A i \in SourceNodeIdx(m) : Resolves(m, Literal(m, i))) =>
      /\ Len(text_changes[m]) = Cardinality(SourceNodeIdx(m))
      /\ \A i \in SourceNodeIdx(m) :
           Cardinality({ k \in DOMAIN text_changes[m] :
                          text_changes[m][k].span = Interior(Literal(m, i)) }) = 1
      /\ \A k \in DOMAIN text_changes[m] :
           text_changes[m][k].span.lo <= text_changes[m][k].span.hi
      /\ \A j, k \in DOMAIN text_changes[m] :
           j # k => \/ text_changes[m][j].span.hi <= text_changes[m][k].span.lo
                    \/ text_changes[m][k].span.hi <= text_changes[m][j].span.lo

C1_Witness ==
  /\ Returned(MOD)
  /\ Cardinality(SourceNodeIdx(MOD)) = 2
  /\ \A i \in SourceNodeIdx(MOD) : Resolves(MOD, Literal(MOD, i))
  /\ Len(text_changes[MOD]) = 2

\* C2: a source string that resolve_dependency cannot resolve gets no change;
\* in the applied output its literal is byte for byte the original one, and
\* the resolved source strings of the same module are still rewritten.
C2_UnresolvedLeftAlone ==
  \A m \in Specifiers : \A i \in SourceNodeIdx(m) :
    ~ Resolves(m, Literal(m, i)) =>
      /\ ChangesFor(m, Literal(m, i)) = {}
      /\ Applied(m) =>
           SubSeq(output[m][1], Literal(m, i).lo + 1 + Shift(m, Literal(m, i).lo),
                                Literal(m, i).hi + Shift(m, Literal(m, i).lo))
             = SubSeq(SourceText(m), Literal(m, i).lo + 1, Literal(m, i).hi)
      /\ Returned(m) =>
           \A j \in SourceNodeIdx(m) :
             Resolves(m, Literal(m, j)) => ChangesFor(m, Literal(m, j)) # {}

C2_Witness ==
  /\ Applied(MOD)
  /\ \E i, j \in SourceNodeIdx(MOD) :
       /\ ~ Resolves(MOD, Literal(MOD, i))
       /\ Literal(MOD, i).value # << >>
       /\ j < i
       /\ Resolves(MOD, Literal(MOD, j))
       /\ ChangesFor(MOD, Literal(MOD, j)) # {}

\* C10: only the top-level import, export-all and named-export-with-source
\* nodes yield a change: every change of a module is the interior of the
\* literal of such a node, and there are never more changes than such nodes.
C10_OnlyTopLevelSourceNodes ==
  \A m \in Specifiers :
    /\ Len(text_changes[m]) <= Cardinality(SourceNodeIdx(m))
    /\ \A k \in DOMAIN text_changes[m] :
         \E i \in SourceNodeIdx(m) : text_changes[m][k].span = Interior(Literal(m, i))

C10_Witness ==
  /\ Returned(MOD)
  /\ Len(text_changes[MOD]) = 1
  /\ \E i \in DOMAIN programs[MOD] :
       /\ programs[MOD][i].kind = "TsModuleDecl"
       /\ Resolves(MOD, programs[MOD][i].children[1].src[1])

\* The path a relative specifier names, read from the directory dir.
RECURSIVE ResolveFrom(_, _)
ResolveFrom(dir, txt) ==
  IF txt = << >> THEN dir
  ELSE IF Head(txt) \in {"/", "."} THEN ResolveFrom(dir, Tail(txt))
  ELSE IF Head(txt) = ".." THEN ResolveFrom(Parent(dir), Tail(txt))
  ELSE ResolveFrom(Append(dir, Head(txt)), Tail(txt))

Visited(m, i) == Started(m) /\ (Returned(m) \/ child_idx[m] > i)

\* C3: a source string whose target has a specifier mapping is replaced by
\* the bare reference (name, or name/subpath), in which the version does not
\* appear, and get_file_path is not asked for the target.
C3_MappedGivesBareReference ==
  \A m \in Specifiers : \A i \in SourceNodeIdx(m) : \A b \in Specifiers :
    (Visited(m, i) /\ TargetOf(m, i, b) /\ IsMapped(b)) =>
      /\ ChangesFor(m, Literal(m, i)) # {}
      /\ \A k \in ChangesFor(m, Literal(m, i)) :
           LET txt == text_changes[m][k].new_text
               ms  == MappingOf(b) IN
           /\ txt = IF ms.sub_path = None THEN << ms.name >>
                     ELSE << ms.name, "/", ms.sub_path[1] >>
           /\ ms.version # None => \A j \in DOMAIN txt : txt[j] # ms.version[1]
      /\ \A c \in file_path_calls[m] : c.at # Literal(m, i).lo

C3_Witness ==
  /\ Returned(MOD)
  /\ LIB \in DOMAIN mappings
  /\ \E i \in SourceNodeIdx(MOD) :
       /\ TargetOf(MOD, i, LIB)
       /\ IsMapped(LIB)
       /\ MappingOf(LIB).version # None
       /\ MappingOf(LIB).sub_path # None
       /\ ChangesFor(MOD, Literal(MOD, i)) # {}

\* C4: a source string whose target has no specifier mapping is replaced by
\* a relative path that starts with ./ or ../, is separated by / only and,
\* read from the directory of the module's output path, names the target's
\* output path.
C4_RelativePathRoundTrip ==
  \A m \in Specifiers : \A i \in SourceNodeIdx(m) : \A b \in Specifiers :
    (Visited(m, i) /\ TargetOf(m, i, b) /\ ~ IsMapped(b)) =>
      /\ ChangesFor(m, Literal(m, i)) # {}
      /\ \A k \in ChangesFor(m, Literal(m, i)) :
           LET txt == text_changes[m][k].new_text IN
           /\ Len(txt) >= 3
           /\ txt[1] \in {".", ".."}
           /\ \A j \in DOMAIN txt :
                /\ txt[j] # "\\"
                /\ (txt[j] = "/") <=> (j % 2 = 0)
           /\ ResolveFrom(Parent(get_file_path(mappings, m)), txt)
                = get_file_path(mappings, b)

C4_Witness ==
  /\ Returned(UTIL)
  /\ ~ IsMapped(LIB)
  /\ \E i \in SourceNodeIdx(UTIL) :
       /\ TargetOf(UTIL, i, LIB)
       /\ \E k \in ChangesFor(UTIL, Literal(UTIL, i)) :
            text_changes[UTIL][k].new_text[1] = ".."

\* C5: a source string that names a redirected specifier is replaced by what
\* the final target of the redirects gives (its bare reference if it is
\* mapped, the relative path to its output path otherwise), not by what the
\* named specifier or a hop in between would give.
C5_RedirectTransparency ==
  \A m \in Specifiers : \A i \in SourceNodeIdx(m) : \A b \in Specifiers :
    LET a == PreResolve(Literal(m, i).value, m) IN
    (Visited(m, i) /\ a # None /\ Redirected(a[1]) /\ TargetOf(m, i, b)) =>
      /\ ChangesFor(m, Literal(m, i)) # {}
      /\ \A k \in ChangesFor(m, Literal(m, i)) :
           LET txt == text_changes[m][k].new_text
               dir == Parent(get_file_path(mappings, m)) IN
           /\ IsMapped(b) => txt = BareSpecifierText(MappingOf(b))
           /\ ~ IsMapped(b) => ResolveFrom(dir, txt) = OutputPath(b)
           /\ \A h \in Specifiers :
                (h # b /\ (h = a[1] \/ ReachesIn(a[1], h, Len(redirects)))) =>
                  /\ ResolveFrom(dir, txt) # OutputPath(h)
                  /\ IsMapped(h) => txt # BareSpecifierText(MappingOf(h))

C5_Witness ==
  /\ Returned(MOD)
  /\ Hop(OLD, MID) /\ Hop(MID, LIB)
  /\ \E i \in SourceNodeIdx(MOD) :
       /\ PreResolve(Literal(MOD, i).value, MOD) = Some(OLD)
       /\ TargetOf(MOD, i, LIB)
       /\ ChangesFor(MOD, Literal(MOD, i)) # {}

Ascending(changes) ==
  \A k \in 1 .. (Len(changes) - 1) : changes[k].span.lo < changes[k + 1].span.lo

InsideChange(m, pos) ==
  \E k \in DOMAIN text_changes[m] :
    text_changes[m][k].span.lo <= pos /\ pos < text_changes[m][k].span.hi

\* C6: a module's changes come in ascending order of their start offsets;
\* handed over in any order they give the same final text, and in that text
\* every byte outside the changed spans is the original byte.
C6_OrderIndependentApplication ==
  \A m \in Specifiers :
    /\ Ascending(text_changes[m])
    /\ Returned(m) =>
         \A p \in Orderings(text_changes[m]) :
           apply_text_changes(SourceText(m), p)
             = apply_text_changes(SourceText(m), text_changes[m])
    /\ Applied(m) =>
         /\ Len(output[m][1]) = Len(ImportsText(injected[m])) + Len(SourceText(m))
                                  + SumLen(text_changes[m])
         /\ \A pos \in 0 .. (Len(SourceText(m)) - 1) :
              ~ InsideChange(m, pos) =>
                output[m][1][pos + 1 + Shift(m, pos)] = SourceText(m)[pos + 1]

C6_Witness ==
  /\ Applied(MOD)
  /\ Len(text_changes[MOD]) = 2
  /\ Len(text_changes[MOD][1].new_text) # Len(text_changes[MOD][2].new_text)

Slot(m) == << pc[m], child_idx[m], output_file_path[m], text_changes[m],
              file_path_calls[m] >>

ReturnsAsAlone ==
  \A m \in Specifiers : \A sep \in PathSeparators :
    Returned(m) => text_changes[m] = get_module_specifier_text_changes(sep, m)

OneSlotPerStep ==
  (phase = "running" /\ phase' = "running") =>
    /\ sharedVars' = sharedVars
    /\ builderVars' = builderVars
    /\ \A m, n \in Specifiers : (Slot(m)' # Slot(m) /\ Slot(n)' # Slot(n)) => m = n

\* C7: while the modules are rewritten in any interleaving, a step writes the
\* slots of one module only and leaves graph, mappings and specifier mappings
\* as they are, and each module's changes are those of a rewrite run alone.
C7_ModulesIndependent == [] ReturnsAsAlone /\ [][OneSlotPerStep]_vars

C7_Witness ==
  /\ Returned(UTIL)
  /\ Len(text_changes[UTIL]) = 1
  /\ pc[MOD] = "visiting"
  /\ child_idx[MOD] = 2
  /\ Len(text_changes[MOD]) = 1

\* The global identifiers the text handed to the loader refers to.
LoaderReferences(m) ==
  { loader[m][i].ident : i \in { j \in DOMAIN loader[m] : loader[m][j].kind = "ExprStmt" } }
ShimGlobals(shim) == { shim.global_names[i].name : i \in DOMAIN shim.global_names }
\* Number of imports from a package in the output of module m.
ImportsFrom(m, package) ==
  Cardinality({ j \in 1 .. (Len(output[m][1]) - 2) :
                  /\ output[m][1][j] = "from"
                  /\ output[m][1][j + 1] = Q
                  /\ output[m][1][j + 2] = package })

\* C9: in the output of a module there is exactly one import of the package
\* of a shim of the module's shim set when the module refers to one or more
\* of the shim's globals, and none when it refers to none of them.
C9_ShimScoping ==
  \A m \in Specifiers : Applied(m) =>
    \A i \in DOMAIN ApplicableShims(m) :
      LET shim == ApplicableShims(m)[i] IN
      ImportsFrom(m, shim.package.name)
        = IF LoaderReferences(m) \cap ShimGlobals(shim) # {} THEN 1 ELSE 0

C9_Witness ==
  /\ Applied(MOD) /\ Applied(TEST)
  /\ shims = << deno_shim, timers_shim >>
  /\ test_shims = << deno_shim, timers_shim >>
  /\ LoaderReferences(MOD) = {"setTimeout", "setInterval"}
  /\ ImportsFrom(MOD, "@deno/shim-timers") = 1
  /\ ImportsFrom(MOD, "@deno/shim-deno") = 0
  /\ ImportsFrom(TEST, "@deno/shim-deno") = 1

====
